---- MODULE Spec2Model ----
(***************************************************************************)
(* A model of the limit order book matching engine of lfordyce/orderbook:  *)
(* the Book (orders_by_id + orders_by_side), the crossing loop of          *)
(* MatchingEngine::matching, the Trade contract, and Engine::process.      *)
(*                                                                         *)
(* Values that the code binds with `let` are passed on as operator         *)
(* parameters (Remove -> RemoveOrder -> RemoveIn, ...), so that every      *)
(* intermediate value is computed once.                                    *)
(***************************************************************************)
EXTENDS Integers, Sequences, FiniteSets, TLC

\* ------------------------------------------------------------------ bounds
MaxId == 3
MaxUser == 2
MaxPrice == 2
MaxQty == 2
\* the records of the input the reader sends on
MaxRecords == 3
\* the Creates of one run that use an order id again
MaxReuse == 1
\* the timestamps a producer other than the reader's clock may stamp
MaxTime == 1
\* the bits of an unsigned integer, standing for the 64 of u64
Width == 4

Ids == 1..MaxId
Users == 1..MaxUser
\* price 0 is the "market" price that Engine::process refuses
Prices == 0..MaxPrice
LimitPrices == 1..MaxPrice
Qtys == 1..MaxQty
Sides == {"Ask", "Bid"}
\* u64 arithmetic is modulo 2^Width; U64Max is u64::MAX
Modulus == 2 ^ Width
U64Max == Modulus - 1
\* the profiles the crate builds with: dev (overflow checks on) and release
Builds == {"debug", "release"}

VARIABLES
    orderbook,   \* Engine.orderbook : Book {orders_by_id, orders_by_side}
    log_sender,  \* the events the last Engine::process call sent on log_sender
    panicked,    \* the thread running the engine has panicked
    now,         \* the clock the input reader stamps requests with (unix_nano)
    created,     \* history: the order ids used by a Create / insert so far
    last,        \* history: the last operation, its inputs and what it returned
    before,      \* history: the book before the last Book::insert, kept while the
                 \* next operation is the remove of the inserted id
    sink_open,   \* the Receiver of the events channel has not been dropped
    stderr,      \* what the last Engine::process call printed with eprintln!
    orders,      \* a maker and a taker held outside any book, or None
    ever,        \* history: every order a Create made, by id, as last seen
    build,       \* the profile the running binary was built with
    driver,      \* what runs the engine: "none", main (main.rs) or run (lib.rs)
    reader,      \* the input thread: "reading", or "done" (tx dropped)
    rx,          \* the operations channel: the requests sent and not yet received
    engine,      \* the engine thread: "running", or "stopped" (rx, log_tx dropped)
    log_rx,      \* the events channel: the events sent and not yet received
    writer,      \* the writer loop: "running" or "done"
    stdout,      \* the events the writer has serialized, in order
    read,        \* history: the requests the reader sent, in order
    handled      \* history: the requests the engine processed, each with the
                 \* events its Engine::process call sent, in order

\* the three stages and the two channels between them
pipe == <<driver, reader, rx, engine, log_rx, writer, stdout, read, handled>>

vars == <<orderbook, log_sender, panicked, now, created, last, before, sink_open,
          stderr, orders, ever, build, pipe>>

\* ------------------------------------------------------------------ helpers
None == [some |-> FALSE]
Some(x) == [some |-> TRUE, val |-> x]

Min2(a, b) == IF a <= b THEN a ELSE b
MinOf(S) == CHOOSE x \in S : \A y \in S : x <= y
MaxOf(S) == CHOOSE x \in S : \A y \in S : x >= y

\* a map without one key
Without(f, k) == [x \in DOMAIN f \ {k} |-> f[x]]

\* ------------------------------------------------------------------ order.rs
\* Side::opposite
Opposite(side) == IF side = "Ask" THEN "Bid" ELSE "Ask"

\* impl TryFrom<OrderRequest> for LimitOrder (Create arm)
LimitOrder(user_id, price, qty, side, user_order_id, unix_nano) ==
    [user_id |-> user_id, order_id |-> user_order_id, price |-> price,
     quantity |-> qty, side |-> side, timestamp |-> unix_nano,
     filled |-> 0, status |-> "Open"]

\* Order::remaining
Remaining(o) == o.quantity - o.filled

\* Order::is_closed
IsClosed(o) == o.status \in {"Cancelled", "Closed", "Completed"}

\* LimitOrder::cancel
CancelOrder(o) ==
    [o EXCEPT !.status = IF @ = "Open" THEN "Cancelled"
                         ELSE IF @ = "Partial" THEN "Closed" ELSE @]

\* mutant: an order is Completed by any fill
StatusAlwaysCompleted(o) == [o EXCEPT !.status = "Completed"]

\* the status LimitOrder::try_fill leaves an order with
StatusAfterFill(o) ==
    [o EXCEPT !.status = IF Remaining(o) = 0 THEN "Completed" ELSE "Partial"]

\* LimitOrder::try_fill
TryFill(o, amount) ==
    IF amount = 0 THEN [err |-> "NoFill", order |-> o]
    ELSE IF amount > Remaining(o) THEN [err |-> "Overfill", order |-> o]
    ELSE [err |-> "Ok", order |-> StatusAfterFill([o EXCEPT !.filled = @ + amount])]

\* ------------------------------------------------------------------ trade.rs
\* the (ask_price, bid_price) pair of LimitOrder::matches
AskPrice(maker, taker) == IF taker.side = "Ask" THEN taker.price ELSE maker.price
BidPrice(maker, taker) == IF taker.side = "Ask" THEN maker.price ELSE taker.price

\* mutant: orders of opposite sides match at any prices
MatchesAnyPrice(maker, taker) ==
    IF IsClosed(taker) \/ IsClosed(maker) THEN "Closed"
    ELSE IF taker.side = maker.side THEN "Conflict"
    ELSE "Ok"

\* mutant: the prices are compared the other way round
MatchesAskAboveBid(maker, taker) ==
    IF IsClosed(taker) \/ IsClosed(maker) THEN "Closed"
    ELSE IF taker.side = maker.side THEN "Conflict"
    ELSE IF AskPrice(maker, taker) >= BidPrice(maker, taker) THEN "Ok"
    ELSE "Incompatible"

\* LimitOrder::matches (self = maker, other = taker)
Matches(maker, taker) ==
    IF IsClosed(taker) \/ IsClosed(maker) THEN "Closed"
    ELSE IF taker.side = maker.side THEN "Conflict"
    ELSE IF BidPrice(maker, taker) >= AskPrice(maker, taker) THEN "Ok"
    ELSE "Incompatible"

\* the amount TradeImpl::try_new exchanges
Exchanged(maker, taker) == Min2(Remaining(taker), Remaining(maker))

\* mutant: the trade is priced at the taker's limit
TradePriceOfTaker(maker, taker) == taker.price

\* the price TradeImpl::try_new trades at
TradePrice(maker, taker) == maker.price

\* TradeImpl::try_new once both orders were filled (lines 62-72);
\* LimitOrder::fill panics when try_fill fails
TradeOf(mf, tf, exchanged, price) ==
    IF mf.err # "Ok" \/ tf.err # "Ok"
    THEN [result |-> "Panic", maker |-> mf.order, taker |-> tf.order, trade |-> None]
    ELSE [result |-> "Ok", maker |-> mf.order, taker |-> tf.order,
          trade |-> Some([buy_user_id |-> tf.order.user_id,
                          buy_order_id |-> tf.order.order_id,
                          sell_user_id |-> mf.order.user_id,
                          sell_order_id |-> mf.order.order_id,
                          amount |-> exchanged,
                          price |-> price])]

\* mutant: only the maker is filled
FillMakerOnly(maker, taker, exchanged, price) ==
    TradeOf(TryFill(maker, exchanged), [err |-> "Ok", order |-> taker], exchanged, price)

\* TradeImpl::try_new once the orders match (lines 59-63)
FillBoth(maker, taker, exchanged, price) ==
    TradeOf(TryFill(maker, exchanged), TryFill(taker, exchanged), exchanged, price)

\* mutant: the orders are traded without asking whether they match
TryNewUnmatched(maker, taker) ==
    FillBoth(maker, taker, Exchanged(maker, taker), TradePrice(maker, taker))

\* TradeImpl::try_new. result: "Ok", a TradeError kind, or "Panic"
TryNew(maker, taker) ==
    IF Matches(maker, taker) # "Ok"
    THEN [result |-> Matches(maker, taker), maker |-> maker, taker |-> taker,
          trade |-> None]
    ELSE FillBoth(maker, taker, Exchanged(maker, taker), TradePrice(maker, taker))

\* ------------------------------------------------------------------ depth.rs
\* the key OrdersBySide::iter visits first: the BTreeMap's first key for Ask,
\* its last (values().rev()) for Bid
TopKey(keys, side) == IF side = "Ask" THEN MinOf(keys) ELSE MaxOf(keys)

\* OrdersBySide::iter over one side: the ids of the levels in key order
\* (ascending for Ask, descending for Bid), each level front to back
RECURSIVE IterLevels(_, _, _)
IterLevels(levels, keys, side) ==
    IF keys = {} THEN <<>>
    ELSE levels[TopKey(keys, side)]
            \o IterLevels(levels, keys \ {TopKey(keys, side)}, side)

Iter(by_side, side) == IterLevels(by_side[side], DOMAIN by_side[side], side)

\* Iterator::next
NextOf(ids) == IF ids = <<>> THEN None ELSE Some(Head(ids))

\* OrdersBySide::peek
PeekId(by_side, side) == NextOf(Iter(by_side, side))

\* ------------------------------------------------------------------ orderbook.rs
\* Book::new
NewBook == [orders_by_id |-> <<>>,
            orders_by_side |-> [s \in Sides |-> <<>>]]

\* mutant: the id is put at the front of the level
PushFront(level, order_id) == <<order_id>> \o level

\* the id appended to a level by Book::insert
PushBack(level, order_id) == Append(level, order_id)

\* Book::insert, the level map: entry(price).or_default().push_back(id)
InsertInLevel(lv, price, order_id) ==
    IF price \in DOMAIN lv
    THEN [lv EXCEPT ![price] = PushBack(@, order_id)]
    ELSE (price :> PushBack(<<>>, order_id)) @@ lv

\* mutant: an order stamped earlier than the head of its level goes in front of it
InsertByTimestamp(b, order) ==
    [orders_by_id |-> (order.order_id :> order) @@ b.orders_by_id,
     orders_by_side |->
        [b.orders_by_side EXCEPT
            ![order.side] =
                IF order.price \in DOMAIN @
                THEN [@ EXCEPT ![order.price] =
                        IF order.timestamp < b.orders_by_id[Head(@)].timestamp
                        THEN <<order.order_id>> \o @
                        ELSE Append(@, order.order_id)]
                ELSE (order.price :> <<order.order_id>>) @@ @]]

\* Book::insert
Insert(b, order) ==
    [orders_by_id |-> (order.order_id :> order) @@ b.orders_by_id,
     orders_by_side |->
        [b.orders_by_side EXCEPT
            ![order.side] = InsertInLevel(@, order.price, order.order_id)]]

\* the position Book::remove finds the order at in its level
Position(level, order_id) == MinOf({j \in 1..Len(level) : level[j] = order_id})

\* mutant: nothing leaves the level
RemoveAtNothing(level, i) == level

\* VecDeque::remove(index)
RemoveAt(level, i) == SubSeq(level, 1, i - 1) \o SubSeq(level, i + 1, Len(level))

\* mutant: the level is kept when its last order leaves it
RemoveFromLevelKeepEmpty(lv, price, order_id) ==
    [lv EXCEPT ![price] = RemoveAt(@, Position(@, order_id))]

\* mutant: the front of the level is taken out, whichever order was asked for
RemoveFromLevelFront(lv, price, order_id) ==
    IF Len(lv[price]) = 1 THEN Without(lv, price)
    ELSE [lv EXCEPT ![price] = Tail(@)]

\* the level map after Book::remove took the order out of its level (lines 79-89)
RemoveFromLevel(lv, price, order_id) ==
    IF Len(lv[price]) = 1
    THEN Without(lv, price)
    ELSE [lv EXCEPT ![price] = RemoveAt(@, Position(@, order_id))]

\* Book::remove once the order left the index (lines 69-98), lv being the level
\* map of the order's side
RemoveIn(b, order, lv) ==
    IF order.price \notin DOMAIN lv
    THEN \* unreachable!("orders that lives in index must also be in the tree")
         [book |-> b, ret |-> None, panic |-> TRUE]
    ELSE IF Len(lv[order.price]) # 1
            /\ ~\E j \in 1..Len(lv[order.price]) : lv[order.price][j] = order.order_id
    THEN \* expect("indexed orders must be in the book tree")
         [book |-> b, ret |-> None, panic |-> TRUE]
    ELSE [book |-> [orders_by_id |-> Without(b.orders_by_id, order.order_id),
                    orders_by_side |->
                        [b.orders_by_side EXCEPT ![order.side] =
                            RemoveFromLevel(lv, order.price, order.order_id)]],
          ret |-> Some(order), panic |-> FALSE]

\* Book::remove
Remove(b, order_id) ==
    IF order_id \notin DOMAIN b.orders_by_id
    THEN [book |-> b, ret |-> None, panic |-> FALSE]
    ELSE RemoveIn(b, b.orders_by_id[order_id],
                  b.orders_by_side[b.orders_by_id[order_id].side])

\* Book::peek / Book::peek_mut, head being what OrdersBySide::peek returned
PeekOrder(b, head) ==
    IF ~head.some THEN [ret |-> None, panic |-> FALSE]
    ELSE IF head.val \notin DOMAIN b.orders_by_id
    THEN \* expect("every order that lives in tree must also be in the index")
         [ret |-> None, panic |-> TRUE]
    ELSE [ret |-> Some(b.orders_by_id[head.val]), panic |-> FALSE]

\* Book::peek / Book::peek_mut
Peek(b, side) == PeekOrder(b, PeekId(b.orders_by_side, side))

\* mutant: pop takes the id out of its level and leaves the index alone
PopAtKeepIndex(b, side, lv, k) ==
    [book |-> [b EXCEPT !.orders_by_side[side] =
                  IF Len(lv[k]) = 1 THEN Without(lv, k) ELSE [lv EXCEPT ![k] = Tail(@)]],
     ret |-> Some(b.orders_by_id[Head(lv[k])]), panic |-> FALSE]

\* Book::pop once the first (Ask) or last (Bid) level k was found (lines 124-135)
PopAt(b, side, lv, k) ==
    IF lv[k] = <<>>
    THEN \* expect("level should always have an order")
         [book |-> b, ret |-> None, panic |-> TRUE]
    ELSE IF Head(lv[k]) \notin DOMAIN b.orders_by_id
    THEN \* expect("every order that lives in tree must also be in the index")
         [book |-> b, ret |-> None, panic |-> TRUE]
    ELSE [book |-> [orders_by_id |-> Without(b.orders_by_id, Head(lv[k])),
                    orders_by_side |->
                        [b.orders_by_side EXCEPT ![side] =
                            IF Len(lv[k]) = 1 THEN Without(lv, k)
                            ELSE [lv EXCEPT ![k] = Tail(@)]]],
          ret |-> Some(b.orders_by_id[Head(lv[k])]), panic |-> FALSE]

\* Book::pop
Pop(b, side) ==
    IF DOMAIN b.orders_by_side[side] = {}
    THEN [book |-> b, ret |-> None, panic |-> FALSE]
    ELSE PopAt(b, side, b.orders_by_side[side],
               TopKey(DOMAIN b.orders_by_side[side], side))

\* Order::limit_price of what Book::peek returned
LimitPriceOf(top) == IF top.ret.some THEN Some(top.ret.val.price) ELSE None

\* Book::spread_option
SpreadOf(a, d) ==
    [panic |-> a.panic \/ d.panic, ask |-> LimitPriceOf(a), bid |-> LimitPriceOf(d)]

SpreadOption(b) == SpreadOf(Peek(b, "Ask"), Peek(b, "Bid"))

\* Book::len
RECURSIVE SumLens(_, _)
SumLens(lv, keys) ==
    IF keys = {} THEN 0
    ELSE Len(lv[MinOf(keys)]) + SumLens(lv, keys \ {MinOf(keys)})

BookLen(b) == [s \in Sides |-> SumLens(b.orders_by_side[s], DOMAIN b.orders_by_side[s])]

\* Book::volume: the remaining quantities of Book::iter, summed
RECURSIVE SumRemaining(_, _)
SumRemaining(idx, ids) ==
    IF ids = <<>> THEN 0
    ELSE Remaining(idx[Head(ids)]) + SumRemaining(idx, Tail(ids))

\* reduce(|acc, curr| acc + curr) on u64, given the mathematical sum: an addition
\* that overflows panics under overflow checks and wraps without them
Reduced(sum) == [panic |-> build = "debug" /\ sum > U64Max, val |-> sum % Modulus]

VolumeSums(a, d) == [panic |-> a.panic \/ d.panic, ask |-> a.val, bid |-> d.val]

\* Book::volume, given the ids Book::iter visits on each side
VolumeOf(idx, asks, bids) ==
    IF \/ \E j \in 1..Len(asks) : asks[j] \notin DOMAIN idx
       \/ \E j \in 1..Len(bids) : bids[j] \notin DOMAIN idx
    THEN \* expect("every order in tree must also be in index")
         [panic |-> TRUE, ask |-> 0, bid |-> 0]
    ELSE VolumeSums(Reduced(SumRemaining(idx, asks)), Reduced(SumRemaining(idx, bids)))

Volume(b) ==
    VolumeOf(b.orders_by_id, Iter(b.orders_by_side, "Ask"), Iter(b.orders_by_side, "Bid"))

\* ------------------------------------------------------------------ engine.rs
\* Order::ack, called as ack(false) by MatchingEngine::matching: the order's
\* Acknowledgment, labelled A, or R for a reject
Ack(order, reject) ==
    [kind |-> "Acknowledgment", label |-> IF reject THEN "R" ELSE "A",
     user_id |-> order.user_id, user_order_id |-> order.order_id]

\* what the history keeps of one executed trade
Exec(t, maker, taker) ==
    [trade |-> t.trade.val, maker_before |-> maker, taker_before |-> taker,
     maker_after |-> t.maker, taker_after |-> t.taker]

\* mutant: the fill of the top order is lost, the book keeps the order as it was
WriteHeadLost(b, side, order) == b

\* the book after the `&mut` returned by peek_mut was written through
WriteHead(b, side, order) ==
    [b EXCEPT !.orders_by_id[PeekId(b.orders_by_side, side).val] = order]

\* how the crossing loop ends: by a break or its condition, or by a panic
LoopEnd(b, incoming_order, trades, panic) ==
    [book |-> b, order |-> incoming_order, trades |-> trades, panic |-> panic]

RECURSIVE CrossingLoop(_, _, _)

\* lines 54-56: what exchange.remove(&top_order_id) returned
AfterRemove(r, taker, trades) ==
    IF r.panic \/ ~r.ret.some
    THEN \* expect("order should be `Some`")
         LoopEnd(r.book, taker, trades, TRUE)
    ELSE CrossingLoop(r.book, taker, trades)

\* mutant: a completed top order is left in the book
AfterTradeKept(b, t, trades) == CrossingLoop(b, t.taker, trades)

\* lines 46-57: a completed top order is removed, and the loop goes on
AfterTrade(b, t, trades) ==
    IF IsClosed(t.maker)
    THEN AfterRemove(Remove(b, t.maker.order_id), t.taker, trades)
    ELSE CrossingLoop(b, t.taker, trades)

\* lines 40-44: the trade of the top order with the incoming order
Traded(b, incoming_order, trades, maker, t) ==
    IF t.result = "Panic" THEN LoopEnd(b, incoming_order, trades, TRUE)
    ELSE IF t.result # "Ok" THEN LoopEnd(b, incoming_order, trades, FALSE)
    ELSE AfterTrade(WriteHead(b, maker.side, t.maker), t,
                    Append(trades, Exec(t, maker, incoming_order)))

\* lines 35-38: the top order of the opposite side
Peeked(b, incoming_order, trades, top) ==
    IF top.panic THEN LoopEnd(b, incoming_order, trades, TRUE)
    ELSE IF ~top.ret.some THEN LoopEnd(b, incoming_order, trades, FALSE)
    ELSE Traded(b, incoming_order, trades, top.ret.val,
                TryNew(top.ret.val, incoming_order))

\* MatchingEngine::matching, the crossing loop (lines 34-58)
CrossingLoop(b, incoming_order, trades) ==
    IF IsClosed(incoming_order) THEN LoopEnd(b, incoming_order, trades, FALSE)
    ELSE Peeked(b, incoming_order, trades, Peek(b, Opposite(incoming_order.side)))

\* mutant: the order is placed as it came in, without the fills it received
PlaceUnfilled(b, incoming_order) ==
    [book |-> Insert(b, [incoming_order EXCEPT !.filled = 0, !.status = "Open"]),
     rested |-> TRUE]

\* what MatchingEngine::matching does with the order once the loop is over
\* (lines 62-63): the order is inserted, whatever its status
Place(b, incoming_order) == [book |-> Insert(b, incoming_order), rested |-> TRUE]

\* MatchingEngine::matching after the loop (lines 62-65)
Placed(b, m, p) ==
    IF m.panic
    THEN [book |-> b, ack |-> None, order |-> m.order, trades |-> m.trades,
          rested |-> FALSE, panic |-> TRUE]
    ELSE [book |-> p.book, ack |-> Some(Ack(m.order, FALSE)), order |-> m.order,
          trades |-> m.trades, rested |-> p.rested, panic |-> FALSE]

AfterLoop(b, m) == Placed(b, m, Place(m.book, m.order))

\* MatchingEngine::matching
Matching(b, incoming_order) == AfterLoop(b, CrossingLoop(b, incoming_order, <<>>))

\* the (side, qty, price) Engine::process picks for BookTop (lines 96-111)
PickTop(v, sp) ==
    IF sp.ask.some /\ sp.bid.some
    THEN IF sp.ask.val > sp.bid.val
         THEN <<"S", v.ask, sp.ask.val>>
         ELSE <<"B", v.bid, sp.bid.val>>
    ELSE IF sp.ask.some THEN <<"S", v.ask, sp.ask.val>>
    ELSE IF sp.bid.some THEN <<"B", v.bid, sp.bid.val>>
    ELSE <<"NONE", v.ask, 0>>

\* the BookTop event of Engine::process (lines 112-117)
TopEvent(pick) ==
    [kind |-> "BookTop", label |-> "B", side |-> pick[1], price |-> pick[3],
     total_qty |-> pick[2]]

BookTopOf(v, sp) ==
    [panic |-> v.panic \/ sp.panic,
     event |-> IF v.panic \/ sp.panic THEN None ELSE Some(TopEvent(PickTop(v, sp)))]

\* Engine::process, lines 95-118: volume(), spread_option(), the BookTop event
BookTop(b) == BookTopOf(Volume(b), SpreadOption(b))

\* mutant: the acknowledgement the matcher returned is not sent
EventsOfTopOnly(ack, top) ==
    [panic |-> top.panic, events |-> IF top.panic THEN <<>> ELSE <<top.event.val>>]

\* the events Engine::process sends for a Create once matching returned Ok
\* (lines 90-118); a panic inside volume() comes after the acknowledgement
EventsOf(ack, top) ==
    [panic |-> top.panic,
     events |-> IF top.panic THEN <<ack>> ELSE <<ack, top.event.val>>]

CreateEvents(m) == EventsOf(m.ack.val, BookTop(m.book))

\* the events Engine::process sends for a Cancel, given what Book::remove returned
CancelEvents(user_id, user_order_id, ret) ==
    <<[kind |-> "Acknowledgment", label |-> "A", user_id |-> user_id,
       user_order_id |-> user_order_id]>>

NoReq == [user_id |-> 0, price |-> 0, qty |-> 0, side |-> "-", user_order_id |-> 0,
          unix_nano |-> 0]

\* what the history keeps of an operation
Done(op, req, result, trades, taker, ret, rested) ==
    [op |-> op, req |-> req, result |-> result, trades |-> trades, taker |-> taker,
     ret |-> ret, rested |-> rested]

\* Engine::new, with an open events channel
NewEngine ==
    /\ orderbook = NewBook
    /\ log_sender = <<>>
    /\ panicked = FALSE
    /\ now = 1
    /\ created = {}
    /\ last = Done("new", NoReq, "Ok", <<>>, None, None, FALSE)
    /\ before = None
    /\ sink_open = TRUE
    /\ stderr = <<>>
    /\ ever = <<>>

\* the channels and threads as driver d creates them
Pipeline(d) ==
    /\ driver = d
    /\ reader = "reading"
    /\ rx = <<>>
    /\ engine = "running"
    /\ log_rx = <<>>
    /\ writer = "running"
    /\ stdout = <<>>
    /\ read = <<>>
    /\ handled = <<>>

\* an Engine on its own: Engine::process is called directly
\* the profile of the specifications whose quantities add up to less than
\* 2^Width, where the profiles do not differ
AnyBuild == build = "release"

Init == NewEngine /\ Pipeline("none") /\ orders = None /\ AnyBuild

\* log_sender.send(event).unwrap_or_else(|e| eprintln!("{}", e)), for each event:
\* what is printed when the Receiver is gone
SendErrors(events) ==
    IF sink_open THEN <<>> ELSE [j \in 1..Len(events) |-> "SendError"]

\* Engine::process, OrderRequest::Create, lines 90-118: matching returned Ok
Accepted(req, m, ev) ==
    /\ orderbook' = m.book
    /\ panicked' = ev.panic
    /\ log_sender' = ev.events
    /\ stderr' = SendErrors(ev.events)
    /\ last' = Done("Create", req, IF ev.panic THEN "Panic" ELSE "Ok", m.trades,
                    Some(m.order), None, m.rested)

\* Engine::process, OrderRequest::Create, lines 89-118
Matched(req, m) ==
    IF m.panic
    THEN /\ panicked' = TRUE
         /\ UNCHANGED orderbook
         /\ log_sender' = <<>>
         /\ stderr' = <<>>
         /\ last' = Done("Create", req, "Panic", m.trades, Some(m.order), None, FALSE)
    ELSE Accepted(req, m, CreateEvents(m))

\* mutant: no price is taken for a market order's
NeverZero(price) == FALSE

\* price.is_zero()
IsZero(price) == price = 0

\* Engine::process, OrderRequest::Create
ProcessCreate(user_id, price, qty, side, user_order_id, unix_nano) ==
    /\ ~panicked
    /\ created' = created \cup {user_order_id}
    /\ IF IsZero(price)
       THEN /\ UNCHANGED <<orderbook, panicked>>
            /\ log_sender' = <<>>
            /\ stderr' = <<>>
            /\ last' = Done("Create",
                            [user_id |-> user_id, price |-> price, qty |-> qty,
                             side |-> side, user_order_id |-> user_order_id,
                             unix_nano |-> unix_nano],
                            "MarketUnsupported", <<>>, None, None, FALSE)
       ELSE Matched([user_id |-> user_id, price |-> price, qty |-> qty,
                     side |-> side, user_order_id |-> user_order_id,
                     unix_nano |-> unix_nano],
                    Matching(orderbook,
                             LimitOrder(user_id, price, qty, side, user_order_id,
                                        unix_nano)))

\* Engine::process, OrderRequest::Cancel, lines 140-146
Cancelled(user_id, user_order_id, unix_nano, r) ==
    /\ panicked' = r.panic
    /\ orderbook' = r.book
    /\ log_sender' = IF r.panic THEN <<>>
                     ELSE CancelEvents(user_id, user_order_id, r.ret)
    /\ stderr' = IF r.panic THEN <<>>
                 ELSE SendErrors(CancelEvents(user_id, user_order_id, r.ret))
    /\ last' = Done("Cancel",
                    [NoReq EXCEPT !.user_id = user_id, !.user_order_id = user_order_id,
                                  !.unix_nano = unix_nano],
                    IF r.panic THEN "Panic" ELSE "Ok", <<>>, None, r.ret, FALSE)

\* mutant: an order is removed for the user who created it only
ProcessCancelByOwner(user_id, user_order_id, unix_nano) ==
    /\ ~panicked
    /\ UNCHANGED created
    /\ Cancelled(user_id, user_order_id, unix_nano,
                 IF /\ user_order_id \in DOMAIN orderbook.orders_by_id
                    /\ orderbook.orders_by_id[user_order_id].user_id # user_id
                 THEN [book |-> orderbook, ret |-> None, panic |-> FALSE]
                 ELSE Remove(orderbook, user_order_id))

\* Engine::process, OrderRequest::Cancel
ProcessCancel(user_id, user_order_id, unix_nano) ==
    /\ ~panicked
    /\ UNCHANGED created
    /\ Cancelled(user_id, user_order_id, unix_nano, Remove(orderbook, user_order_id))

\* Engine::process, OrderRequest::FlushBook
ProcessFlush ==
    /\ ~panicked
    /\ orderbook' = NewBook
    /\ log_sender' = <<>>
    /\ stderr' = <<>>
    /\ UNCHANGED <<panicked, created>>
    /\ last' = Done("Flush", NoReq, "Ok", <<>>, None, None, FALSE)

\* the input reader (lib.rs, InputProcessor) stamps each record it sends with the
\* clock; the records reach the engine in the order they were read
Tick == now' = now + 1

\* The Book compares order ids for equality only, so which unused id a new order
\* carries makes no difference to it: new orders take the unused ids in
\* increasing order.
FreshIds == {id \in Ids \ created : \A other \in Ids \ created : id <= other}

\* a Create whose order id was not used before, with qty > 0
Create ==
    \E user_id \in Users, price \in Prices, qty \in Qtys, side \in Sides,
       user_order_id \in FreshIds :
        /\ ProcessCreate(user_id, price, qty, side, user_order_id, now)
        /\ Tick
        /\ UNCHANGED <<before, sink_open, build, ever, orders, pipe>>

\* a Cancel; the clock is left alone, as nothing keeps a Cancel's timestamp
Cancel ==
    \E user_id \in Users, user_order_id \in Ids :
        /\ ProcessCancel(user_id, user_order_id, now)
        /\ UNCHANGED <<now, before, sink_open, build, ever, orders, pipe>>

Flush == ProcessFlush /\ UNCHANGED <<now, before, sink_open, build, ever, orders, pipe>>

Next == Create \/ Cancel \/ Flush

Spec == Init /\ [][Next]_vars

\* ------------------------------------------------------------------ a closed sink
\* The Receiver of the events channel is dropped while the Engine lives: the
\* writer loop of run ends when csv_writer.serialize fails (lib.rs, line 152), and
\* a caller of Engine::new may drop its Receiver at any time.
SinkClose ==
    /\ sink_open
    /\ sink_open' = FALSE
    /\ UNCHANGED <<orderbook, log_sender, panicked, now, created, last, before,
                   stderr, orders, ever, build, pipe>>

NextSink == Create \/ Cancel \/ Flush \/ SinkClose

SpecSink == Init /\ [][NextSink]_vars

\* ------------------------------------------------------------------ order ids used again
\* Engine::process takes any user_order_id: nothing in the reader or in
\* Engine::process looks whether the id of a Create was used before.

\* the Creates so far that used an order id again: every Create moves the clock
\* on by one, and only a Create with a new id adds to `created`
Reused == (now - 1) - Cardinality(created)

\* a Create with price > 0 and qty > 0 by which a user gives the user_order_id of
\* an order of theirs that rests in the book to a second order
CreateAgain ==
    \E price \in LimitPrices, qty \in Qtys, side \in Sides,
       user_order_id \in DOMAIN orderbook.orders_by_id :
        /\ Reused < MaxReuse
        /\ ProcessCreate(orderbook.orders_by_id[user_order_id].user_id, price, qty,
                         side, user_order_id, now)
        /\ Tick
        /\ UNCHANGED <<before, sink_open, build, ever, orders, pipe>>

NextReuse == Create \/ CreateAgain \/ Cancel \/ Flush

SpecReuse == Init /\ [][NextReuse]_vars

\* ------------------------------------------------------------------ orders of no quantity
\* The reader parses qty as any u64 and Engine::process refuses a Create for its
\* price only: a Create with qty = 0 and price > 0 reaches the matcher.
CreateNothing ==
    \E user_id \in Users, price \in LimitPrices, side \in Sides,
       user_order_id \in FreshIds :
        /\ ProcessCreate(user_id, price, 0, side, user_order_id, now)
        /\ Tick
        /\ UNCHANGED <<before, sink_open, build, ever, orders, pipe>>

NextZero == Create \/ CreateNothing \/ Cancel \/ Flush

SpecZero == Init /\ [][NextZero]_vars

\* ------------------------------------------------------------------ every order made
\* The Engine with a ledger beside it: `ever` keeps each order a Create made as
\* the matcher last left it, whether it still rests in the book or not.

\* the orders operation d wrote to: its incoming order and the makers of its trades
Touched(d) ==
    {d.trades[k].maker_after : k \in 1..Len(d.trades)}
        \cup (IF d.taker.some THEN {d.taker.val} ELSE {})

\* the ledger after operation d
EverAfter(e, d) ==
    [id \in DOMAIN e \cup {o.order_id : o \in Touched(d)} |->
        IF \E o \in Touched(d) : o.order_id = id
        THEN CHOOSE o \in Touched(d) : o.order_id = id
        ELSE e[id]]

CreateEver ==
    \E user_id \in Users, price \in Prices, qty \in Qtys, side \in Sides,
       user_order_id \in FreshIds :
        /\ ProcessCreate(user_id, price, qty, side, user_order_id, now)
        /\ Tick
        /\ ever' = EverAfter(ever, last')
        /\ UNCHANGED <<before, sink_open, build, orders, pipe>>

NextEver == CreateEver \/ Cancel \/ Flush

SpecEver == Init /\ [][NextEver]_vars

\* ------------------------------------------------------------------ any timestamps
\* OrderRequest::Create carries unix_nano as a field of the request: a caller of
\* Engine::process other than the reader may stamp it with any value, equal to
\* or smaller than an earlier one.
Times == 0..MaxTime

CreateAt ==
    \E user_id \in Users, price \in Prices, qty \in Qtys, side \in Sides,
       user_order_id \in FreshIds, unix_nano \in Times :
        /\ ProcessCreate(user_id, price, qty, side, user_order_id, unix_nano)
        /\ UNCHANGED <<now, before, sink_open, build, ever, orders, pipe>>

NextTime == CreateAt \/ Cancel \/ Flush

SpecTime == Init /\ [][NextTime]_vars

\* ------------------------------------------------------------------ large quantities
\* qty is any u64: orders may carry quantities up to u64::MAX, and the binary may
\* be built with either profile.
InitBig == NewEngine /\ Pipeline("none") /\ orders = None /\ build \in Builds

CreateBig ==
    \E user_id \in Users, price \in LimitPrices, side \in Sides,
       user_order_id \in FreshIds :
        /\ ProcessCreate(user_id, price, U64Max, side, user_order_id, now)
        /\ Tick
        /\ UNCHANGED <<before, sink_open, build, ever, orders, pipe>>

NextBig == Create \/ CreateBig \/ Cancel \/ Flush

SpecBig == InitBig /\ [][NextBig]_vars

\* ------------------------------------------------------------------ matcher.rs
\* The second matcher of the crate: Matcher::match_order over a Books, the
\* implementation of OrderBookAlt (orderbook.rs, lines 189-299). A Books keeps the
\* orders in a map by id and, for each side, a binary heap of OrderIndex keys
\* (order.rs, lines 271-398). A heap is held here as the sequence of the keys
\* pushed and not yet taken out; peek and pop take a greatest key by Ord, which
\* is the only one, as no two keys of a side have both price and timestamp equal.
NewBooks == [orders |-> <<>>, bids |-> <<>>, asks |-> <<>>]

\* From<LimitOrder> for OrderIndex
OrderIndexOf(value) ==
    [order_id |-> value.order_id, price |-> value.price, side |-> value.side,
     timestamp |-> value.timestamp]

\* Ord for OrderIndex: self.cmp(other) is Ordering::Greater
Greater(self, other) ==
    IF self.price > other.price THEN self.side = "Bid"
    ELSE IF self.price < other.price THEN self.side = "Ask"
    ELSE other.timestamp > self.timestamp

\* BinaryHeap::peek, BinaryHeap::pop: where a greatest key is
HeapTop(heap) ==
    CHOOSE i \in 1..Len(heap) : \A j \in 1..Len(heap) : ~Greater(heap[j], heap[i])

QueueOf(side) == IF side = "Bid" THEN "bids" ELSE "asks"

TopKeyOf(b, side) == b[QueueOf(side)][HeapTop(b[QueueOf(side)])]

\* PriceTimePriorityOrderQueue::remove
Retain(heap, item) == SelectSeq(heap, LAMBDA k : k # item)

\* Books::cancel; it returns Ok(()) on both arms
BooksCancel(b, order_id) ==
    IF order_id \in DOMAIN b.orders
    THEN [book |-> [b EXCEPT !.orders = Without(@, order_id),
                             ![QueueOf(b.orders[order_id].side)] =
                                 Retain(@, OrderIndexOf(b.orders[order_id]))],
          result |-> "Ok"]
    ELSE [book |-> b, result |-> "Ok"]

\* Books::place; it returns Ok(()) always
BooksPlace(b, order) ==
    [book |-> [b EXCEPT !.orders = (order.order_id :> order) @@ @,
                        ![QueueOf(order.side)] = Append(@, OrderIndexOf(order))],
     result |-> "Ok"]

\* Books::peek_top_ask, Books::peek_top_bid
BooksPeekTop(b, side) ==
    IF b[QueueOf(side)] = <<>> THEN None
    ELSE IF TopKeyOf(b, side).order_id \in DOMAIN b.orders
    THEN Some(b.orders[TopKeyOf(b, side).order_id])
    ELSE None

\* Books::modify_quantity
BooksModifyQuantity(b, orderid, quantity) ==
    IF orderid \in DOMAIN b.orders
    THEN [b EXCEPT !.orders[orderid].quantity = quantity]
    ELSE b

\* Books::pop_top_bid, Books::pop_top_ask
BooksPopTop(b, side) ==
    IF b[QueueOf(side)] = <<>> THEN b
    ELSE [b EXCEPT ![QueueOf(side)] = RemoveAt(@, HeapTop(@)),
                   !.orders = Without(@, TopKeyOf(b, side).order_id)]

\* Match::new
NewMatch == [matches |-> <<>>, state |-> "NoMatch", qty_left |-> 0]

TradeS(order_id, side, price, quantity) ==
    [order_id |-> order_id, side |-> side, price |-> price, quantity |-> quantity,
     timestamp |-> 0]

\* the two Match::add_match calls of each arm of do_match
AddMatches(m, incoming_order, opposite_order, quantity) ==
    [m EXCEPT !.matches = @ \o
        <<TradeS(incoming_order.order_id, incoming_order.side, opposite_order.price,
                 quantity),
          TradeS(opposite_order.order_id, opposite_order.side, opposite_order.price,
                 quantity)>>]

\* Match::update_state
UpdateState(m, state) ==
    [m EXCEPT !.state = state, !.qty_left = IF state = "Partial" THEN @ ELSE 0]

\* Matcher::is_within_price_limit
IsWithinPriceLimit(order, opp_order) ==
    IF order.side = "Bid" THEN order.price >= opp_order.price
    ELSE order.price <= opp_order.price

RECURSIVE DoMatch(_, _, _, _)
RECURSIVE Refill(_, _, _)

\* Matcher::do_match, lines 194-220: the incoming order, less what was matched,
\* goes on to the next top of the opposite side, whatever its price
Refill(incoming_order, b, m) ==
    IF BooksPeekTop(b, Opposite(incoming_order.side)).some
    THEN DoMatch(incoming_order, BooksPeekTop(b, Opposite(incoming_order.side)).val,
                 b, m)
    ELSE [book |-> b, matches |-> m]

\* Matcher::do_match
DoMatch(incoming_order, opposite_order, b, m) ==
    IF incoming_order.quantity < opposite_order.quantity
    THEN [book |-> BooksModifyQuantity(b, opposite_order.order_id,
                       opposite_order.quantity - incoming_order.quantity),
          matches |-> UpdateState(AddMatches(m, incoming_order, opposite_order,
                                             incoming_order.quantity), "Full")]
    ELSE IF incoming_order.quantity > opposite_order.quantity
    THEN Refill([incoming_order EXCEPT !.quantity = @ - opposite_order.quantity],
                BooksPopTop(b, Opposite(incoming_order.side)),
                UpdateState([AddMatches(m, incoming_order, opposite_order,
                                        opposite_order.quantity)
                                EXCEPT !.qty_left = incoming_order.quantity
                                                    - opposite_order.quantity],
                            "Partial"))
    ELSE [book |-> BooksPopTop(b, Opposite(incoming_order.side)),
          matches |-> UpdateState(AddMatches(m, incoming_order, opposite_order,
                                             incoming_order.quantity), "Full")]

\* mutant: after a partial match the incoming order is placed whole
LeftOverWhole(order, r) ==
    IF r.matches.state = "Partial"
    THEN [r EXCEPT !.book = BooksPlace(@, order).book]
    ELSE r

\* Matcher::match_order, lines 116-120: what is left of a partial match is placed
LeftOver(order, r) ==
    IF r.matches.state = "Partial"
    THEN [r EXCEPT !.book =
             BooksPlace(@, [order EXCEPT !.quantity = r.matches.qty_left]).book]
    ELSE r

\* Matcher::match_order
MatchOrder(order, b) ==
    IF /\ BooksPeekTop(b, Opposite(order.side)).some
       /\ IsWithinPriceLimit(order, BooksPeekTop(b, Opposite(order.side)).val)
    THEN LeftOver(order, DoMatch(order, BooksPeekTop(b, Opposite(order.side)).val,
                                 b, NewMatch))
    ELSE [book |-> BooksPlace(b, order).book, matches |-> NewMatch]

\* A Books on its own, with the calls of OrderBookAlt that change it (place,
\* cancel) and those of the matcher (match_order). An order is stamped with the
\* clock; place is also called with an id the book holds already.
InitAlt ==
    /\ orderbook = NewBooks
    /\ log_sender = <<>>
    /\ panicked = FALSE
    /\ now = 1
    /\ created = {}
    /\ last = Done("new", NoReq, "Ok", <<>>, None, None, FALSE)
    /\ before = None
    /\ sink_open = TRUE
    /\ stderr = <<>>
    /\ ever = <<>>
    /\ orders = None
    /\ AnyBuild
    /\ Pipeline("none")

AltStep(op, user_order_id, result, taker, book, m) ==
    /\ orderbook' = book
    /\ before' = Some(orderbook)
    /\ last' = Done(op, [NoReq EXCEPT !.user_order_id = user_order_id], result,
                    m.matches, taker, Some(m), FALSE)
    /\ UNCHANGED <<log_sender, panicked, sink_open, stderr, build, ever, orders, pipe>>

AltMatched(order, r) ==
    AltStep("match_order", order.order_id, "Ok", Some(order), r.book, r.matches)

\* matcher.match_order(order, &mut books), the id of the order not used before
AltMatch ==
    \E user_id \in Users, price \in LimitPrices, qty \in Qtys, side \in Sides,
       user_order_id \in FreshIds :
        /\ AltMatched(LimitOrder(user_id, price, qty, side, user_order_id, now),
                      MatchOrder(LimitOrder(user_id, price, qty, side,
                                            user_order_id, now), orderbook))
        /\ created' = created \cup {user_order_id}
        /\ Tick

AltPlaced(order, r) ==
    AltStep("place", order.order_id, r.result, Some(order), r.book, NewMatch)

\* books.place(order)
AltPlace ==
    \E user_id \in Users, price \in LimitPrices, qty \in Qtys, side \in Sides,
       user_order_id \in FreshIds \cup DOMAIN orderbook.orders :
        /\ user_order_id \in created => Reused < MaxReuse
        /\ AltPlaced(LimitOrder(user_id, price, qty, side, user_order_id, now),
                     BooksPlace(orderbook,
                                LimitOrder(user_id, price, qty, side,
                                           user_order_id, now)))
        /\ created' = created \cup {user_order_id}
        /\ Tick

AltCancelled(order_id, r) ==
    AltStep("cancel", order_id, r.result, None, r.book, NewMatch)

\* books.cancel(order_id)
AltCancel ==
    \E order_id \in Ids :
        /\ AltCancelled(order_id, BooksCancel(orderbook, order_id))
        /\ UNCHANGED <<now, created>>

NextAlt == AltMatch \/ AltPlace \/ AltCancel

SpecAlt == InitAlt /\ [][NextAlt]_vars

\* ------------------------------------------------------------------ the three threads
\* The reader, the engine and the writer of main (main.rs) and of run (lib.rs),
\* with the operations channel (tx, rx) and the events channel (log_tx, log_rx)
\* between them. Both channels are std::sync::mpsc::channel(): unbounded, first
\* in first out, and recv() fails once the Sender is dropped and nothing is left.
Drivers == {"main", "run"}

InitRun == NewEngine /\ orders = None /\ AnyBuild /\ \E d \in Drivers : Pipeline(d)

\* OrderRequest::Create, OrderRequest::Cancel, OrderRequest::FlushBook
CreateRequest(user_id, price, qty, side, user_order_id, unix_nano) ==
    [kind |-> "Create", user_id |-> user_id, price |-> price, qty |-> qty,
     side |-> side, user_order_id |-> user_order_id, unix_nano |-> unix_nano]

CancelRequest(user_id, user_order_id, unix_nano) ==
    [kind |-> "Cancel", user_id |-> user_id, user_order_id |-> user_order_id,
     unix_nano |-> unix_nano]

FlushBook == [kind |-> "FlushBook"]

\* the order ids of the N records read so far; a new order takes the least
\* unused one, as in FreshIds
ReadIds ==
    {read[j].user_order_id : j \in {i \in 1..Len(read) : read[i].kind = "Create"}}

UnreadIds == {id \in Ids \ ReadIds : \A other \in Ids \ ReadIds : id <= other}

\* tx.send(request): fails once the engine thread has dropped rx; run's reader
\* ends on the error (`?`), main's prints it and reads on
Send(request) ==
    IF engine = "stopped"
    THEN /\ reader' = IF driver = "run" THEN "done" ELSE reader
         /\ UNCHANGED <<rx, read>>
    ELSE /\ rx' = Append(rx, request)
         /\ read' = Append(read, request)
         /\ UNCHANGED reader

\* the reader's loop body for one record: stamp it and send the request
Read(request) ==
    /\ reader = "reading"
    /\ Len(read) < MaxRecords
    /\ Send(request)
    /\ Tick
    /\ UNCHANGED <<orderbook, log_sender, panicked, created, last, before,
                   sink_open, build, ever, orders, stderr, driver, engine, log_rx, writer, stdout,
                   handled>>

ReadCreate ==
    \E user_id \in Users, price \in Prices, qty \in Qtys, side \in Sides,
       user_order_id \in UnreadIds :
        Read(CreateRequest(user_id, price, qty, side, user_order_id, now))

ReadCancel ==
    \E user_id \in Users, user_order_id \in Ids :
        Read(CancelRequest(user_id, user_order_id, now))

ReadFlush == Read(FlushBook)

\* end of input: the reader's loop ends and tx is dropped
ReadEof ==
    /\ reader = "reading"
    /\ reader' = "done"
    /\ UNCHANGED <<orderbook, log_sender, panicked, now, created, last, before,
                   sink_open, build, ever, orders, stderr, driver, rx, engine, log_rx, writer, stdout,
                   read, handled>>

\* Engine::process(request)
Process(request) ==
    IF request.kind = "Create"
    THEN ProcessCreate(request.user_id, request.price, request.qty, request.side,
                       request.user_order_id, request.unix_nano)
    ELSE IF request.kind = "Cancel"
    THEN ProcessCancel(request.user_id, request.user_order_id, request.unix_nano)
    ELSE ProcessFlush

\* what the engine thread does with the Result of Engine::process: run returns
\* the error (`engine.process(order)?`), which ends the thread and drops rx and
\* log_tx; main prints it and goes on
AfterProcess(result) ==
    IF driver = "run" /\ result # "Ok"
    THEN engine' = "stopped" /\ rx' = <<>>
    ELSE engine' = engine /\ rx' = Tail(rx)

\* the events that reach the channel
Delivered(events) == IF sink_open THEN events ELSE <<>>

\* the engine thread's loop body: rx.recv() returned a request
EngineRecv ==
    /\ engine = "running"
    /\ rx # <<>>
    /\ Process(Head(rx))
    /\ AfterProcess(last'.result)
    /\ log_rx' = log_rx \o Delivered(log_sender')
    /\ handled' = Append(handled, [request |-> Head(rx), events |-> log_sender'])
    /\ UNCHANGED <<now, before, sink_open, build, ever, orders, driver, reader, writer, stdout, read>>

\* rx.recv() fails: tx was dropped and the channel is empty; the thread ends and
\* drops the Engine, and log_tx with it
EngineStop ==
    /\ engine = "running"
    /\ rx = <<>>
    /\ reader = "done"
    /\ engine' = "stopped"
    /\ UNCHANGED <<orderbook, log_sender, panicked, now, created, last, before,
                   sink_open, build, ever, orders, stderr, driver, reader, rx, log_rx, writer, stdout,
                   read, handled>>

\* main joins the reader and the engine before its writer loop; run's writer
\* loop runs beside them
WriterStarted == driver = "main" => (reader = "done" /\ engine = "stopped")

\* mutant: the writer receives the event sent last
RecvNewest(channel) ==
    [val |-> channel[Len(channel)], rest |-> SubSeq(channel, 1, Len(channel) - 1)]

\* Receiver::recv on a channel that holds an event
Recv(channel) == [val |-> Head(channel), rest |-> Tail(channel)]

\* the writer's loop body: log_rx.recv() returned an event, which is serialized
Write ==
    /\ writer = "running"
    /\ WriterStarted
    /\ log_rx # <<>>
    /\ stdout' = Append(stdout, Recv(log_rx).val)
    /\ log_rx' = Recv(log_rx).rest
    /\ UNCHANGED <<orderbook, log_sender, panicked, now, created, last, before,
                   sink_open, build, ever, orders, stderr, driver, reader, rx, engine, writer, read,
                   handled>>

\* log_rx.recv() fails: log_tx was dropped and the channel is empty; the writer
\* flushes and ends
WriterStop ==
    /\ writer = "running"
    /\ WriterStarted
    /\ log_rx = <<>>
    /\ engine = "stopped"
    /\ writer' = "done"
    /\ UNCHANGED <<orderbook, log_sender, panicked, now, created, last, before,
                   sink_open, build, ever, orders, stderr, driver, reader, rx, engine, log_rx, stdout,
                   read, handled>>

NextRun ==
    \/ ReadCreate
    \/ ReadCancel
    \/ ReadFlush
    \/ ReadEof
    \/ EngineRecv
    \/ EngineStop
    \/ Write
    \/ WriterStop

SpecRun == InitRun /\ [][NextRun]_vars

\* ------------------------------------------------------------------ the Book alone
\* The operations of Book's OrderBook impl called directly on a Book, without the
\* Engine around it, as tests/order_book_test.rs calls matching and cancel.

BookStep(op, req, r, trades, taker, rested) ==
    /\ ~panicked
    /\ panicked' = r.panic
    /\ orderbook' = r.book
    /\ log_sender' = <<>>
    /\ stderr' = <<>>
    /\ UNCHANGED <<sink_open, build, ever, orders, pipe>>
    /\ last' = Done(op, req, IF r.panic THEN "Panic" ELSE "Ok", trades, taker, r.ret,
                    rested)

\* Book::insert of a new open order
BookInsert ==
    \E user_id \in Users, price \in LimitPrices, qty \in Qtys, side \in Sides,
       order_id \in FreshIds :
        /\ created' = created \cup {order_id}
        /\ Tick
        /\ before' = Some(orderbook)
        /\ BookStep("insert",
                    [user_id |-> user_id, price |-> price, qty |-> qty, side |-> side,
                     user_order_id |-> order_id, unix_nano |-> now],
                    [book |-> Insert(orderbook,
                                     LimitOrder(user_id, price, qty, side, order_id, now)),
                     ret |-> None, panic |-> FALSE],
                    <<>>, None, TRUE)

\* Book::remove (the trait's cancel)
BookRemove ==
    \E order_id \in Ids :
        /\ UNCHANGED <<created, now>>
        /\ before' = IF last.op = "insert" /\ last.req.user_order_id = order_id
                     THEN before ELSE None
        /\ BookStep("remove", [NoReq EXCEPT !.user_order_id = order_id],
                    Remove(orderbook, order_id), <<>>, None, FALSE)

\* Book::pop
BookPop ==
    \E side \in Sides :
        /\ UNCHANGED <<created, now>>
        /\ before' = None
        /\ BookStep("pop", [NoReq EXCEPT !.side = side], Pop(orderbook, side),
                    <<>>, None, FALSE)

\* OrderBook::matching called on the Book
BookMatched(req, m) ==
    BookStep("matching", req, [book |-> m.book, ret |-> None, panic |-> m.panic],
             m.trades, Some(m.order), m.rested)

\* OrderBook::matching of a new open order
BookMatching ==
    \E user_id \in Users, price \in LimitPrices, qty \in Qtys, side \in Sides,
       order_id \in FreshIds :
        /\ created' = created \cup {order_id}
        /\ Tick
        /\ before' = None
        /\ BookMatched([user_id |-> user_id, price |-> price, qty |-> qty,
                        side |-> side, user_order_id |-> order_id, unix_nano |-> now],
                       Matching(orderbook,
                                LimitOrder(user_id, price, qty, side, order_id, now)))

\* Book::new, as FlushBook replaces the book
BookNew ==
    /\ UNCHANGED <<created, now>>
    /\ before' = None
    /\ BookStep("flush", NoReq, [book |-> NewBook, ret |-> None, panic |-> FALSE],
                <<>>, None, FALSE)

NextBook == BookInsert \/ BookRemove \/ BookPop \/ BookMatching \/ BookNew

SpecBook == Init /\ [][NextBook]_vars

\* ------------------------------------------------------------------ two orders alone
\* The methods of LimitOrder called on two orders that are in no book: matches
\* and trade (trade.rs), fill and cancel (order.rs). In `last`, taker is the order
\* the method was called with (for matches and trade, the taker) and ret is what
\* the method left of it (for matches and trade, the maker it was called on).

\* the orders TryFrom<OrderRequest> builds from a Create
NewOrders(user_order_id) ==
    {LimitOrder(user_order_id, price, qty, side, user_order_id, user_order_id) :
        price \in Prices, qty \in Qtys, side \in Sides}

InitPair ==
    /\ NewEngine
    /\ Pipeline("none")
    /\ AnyBuild
    /\ \E m \in NewOrders(1), t \in NewOrders(2) : orders = [maker |-> m, taker |-> t]

PairStep(op, amount, result, trades, o, left) ==
    /\ ~panicked
    /\ panicked' = (result \in {"NoFill", "Overfill", "Panic"})
    /\ last' = Done(op, [NoReq EXCEPT !.qty = amount], result, trades, Some(o),
                    Some(left), FALSE)
    /\ UNCHANGED <<orderbook, log_sender, now, created, before, sink_open, build, ever, stderr,
                   pipe>>

\* maker.matches(&taker)
PairMatches ==
    /\ PairStep("matches", 0, Matches(orders.maker, orders.taker), <<>>,
                orders.taker, orders.maker)
    /\ UNCHANGED orders

\* LimitOrder::fill: try_fill, and a panic (expect) when it fails
Filled(who, amount, r) ==
    /\ PairStep("fill", amount, r.err, <<>>, orders[who], r.order)
    /\ orders' = [orders EXCEPT ![who] = r.order]

PairFill ==
    \E who \in {"maker", "taker"}, amount \in 0..(MaxQty + 1) :
        Filled(who, amount, TryFill(orders[who], amount))

\* LimitOrder::cancel
PairCancel ==
    \E who \in {"maker", "taker"} :
        /\ PairStep("cancel", 0, "Ok", <<>>, orders[who], CancelOrder(orders[who]))
        /\ orders' = [orders EXCEPT ![who] = CancelOrder(@)]

\* maker.trade(&mut taker)
PairTraded(t) ==
    /\ PairStep("trade", 0, t.result,
                IF t.trade.some THEN <<Exec(t, orders.maker, orders.taker)>> ELSE <<>>,
                orders.taker, orders.maker)
    /\ orders' = [maker |-> t.maker, taker |-> t.taker]

PairTrade == PairTraded(TryNew(orders.maker, orders.taker))

NextPair == PairMatches \/ PairFill \/ PairCancel \/ PairTrade

SpecPair == InitPair /\ [][NextPair]_vars

\* ------------------------------------------------------------------ properties
Index == orderbook.orders_by_id
Levels(side) == orderbook.orders_by_side[side]
CreateDone == last.op = "Create" /\ last.result = "Ok"
Taker == last.taker.val
TradeCount == Len(last.trades)

\* C1: after every Engine operation, if both sides of the book are non-empty the
\* price of the top ask is strictly greater than the price of the top bid.
C1_NeverCrossedOrLocked ==
    LET sp == SpreadOption(orderbook)
    IN (sp.ask.some /\ sp.bid.some) => sp.ask.val > sp.bid.val

\* o is ahead of m in price-time priority: a better price, or the same price and
\* an earlier arrival
HigherPriority(o, m) ==
    /\ o.side = m.side
    /\ o.order_id # m.order_id
    /\ \/ (m.side = "Ask" /\ o.price < m.price)
       \/ (m.side = "Bid" /\ o.price > m.price)
       \/ (o.price = m.price /\ o.timestamp < m.timestamp)

\* C2: the trades of one Create consume the resting opposite-side orders in
\* price-time priority: whenever a maker is filled, every order that rested ahead
\* of it (better price, or same price and earlier arrival) with quantity left was
\* filled completely by an earlier trade of the same Create.
C2_PriceTimePriority ==
    [][(last'.op = "Create" /\ last'.result = "Ok") =>
        \A k \in 1..Len(last'.trades) :
            LET m == last'.trades[k].maker_before
            IN /\ m.order_id \in DOMAIN orderbook.orders_by_id
               /\ m = orderbook.orders_by_id[m.order_id]
               /\ m.side = Opposite(last'.req.side)
               /\ \A id \in DOMAIN orderbook.orders_by_id :
                    LET o == orderbook.orders_by_id[id]
                    IN (HigherPriority(o, m) /\ Remaining(o) > 0) =>
                         \E j \in 1..(k - 1) :
                            /\ last'.trades[j].maker_after.order_id = id
                            /\ Remaining(last'.trades[j].maker_after) = 0]_vars

\* C2 witness: a Create traded with two makers of one price level, one after the other
C2_Witness ==
    /\ CreateDone
    /\ TradeCount = 2
    /\ last.trades[1].maker_before.price = last.trades[2].maker_before.price
    /\ last.trades[1].maker_before.timestamp < last.trades[2].maker_before.timestamp

\* C3: a Create whose order the crossing loop filled completely does not place the
\* order (rested is false, the order is not in the book); with residual quantity
\* the order is placed and rested is true.
C3_FilledTakerNotPlaced ==
    CreateDone =>
        IF IsClosed(Taker)
        THEN ~last.rested /\ Taker.order_id \notin DOMAIN Index
        ELSE last.rested /\ Taker.order_id \in DOMAIN Index

\* C4: every trade has amount = min(maker.remaining, taker.remaining) as measured
\* before the trade, amount > 0, the maker's limit price as its price, and adds
\* exactly that amount to the filled quantity of both orders.
C4_TradeAmountAndPrice ==
    \A k \in 1..TradeCount :
        LET t == last.trades[k]
            mr == t.maker_before.quantity - t.maker_before.filled
            tr == t.taker_before.quantity - t.taker_before.filled
        IN /\ t.trade.amount > 0
           /\ t.trade.amount = (IF mr <= tr THEN mr ELSE tr)
           /\ t.trade.price = t.maker_before.price
           /\ t.maker_after.filled = t.maker_before.filled + t.trade.amount
           /\ t.taker_after.filled = t.taker_before.filled + t.trade.amount

\* C4 witness: a trade whose two orders had different remaining quantities and
\* different limit prices
C4_Witness ==
    /\ CreateDone
    /\ \E k \in 1..TradeCount :
        LET t == last.trades[k]
        IN /\ Remaining(t.maker_before) # Remaining(t.taker_before)
           /\ t.maker_before.price # t.taker_before.price

\* C5: between operations every order stored in the book is live: its status is
\* Open or Partial and its remaining quantity is > 0.
C5_StoredOrdersAreLive ==
    \A id \in DOMAIN Index :
        /\ Index[id].status \in {"Open", "Partial"}
        /\ Remaining(Index[id]) > 0

\* the ids of one side of the book, level after level
SideIds(b, side) == Iter(b.orders_by_side, side)

\* how many times an id occurs in the level at (side, price)
Occurrences(side, price, id) ==
    IF price \in DOMAIN Levels(side)
    THEN Cardinality({j \in 1..Len(Levels(side)[price]) : Levels(side)[price][j] = id})
    ELSE 0

\* C6: the Side Books and the Order Index are in lockstep: every id of a level is
\* indexed, every indexed id is once in the level of its own side and price and
\* nowhere else, and len(side) is the number of indexed orders of that side.
C6_BookAndIndexInLockstep ==
    /\ \A side \in Sides : \A price \in DOMAIN Levels(side) :
         \A j \in 1..Len(Levels(side)[price]) : Levels(side)[price][j] \in DOMAIN Index
    /\ \A id \in DOMAIN Index :
         /\ Index[id].order_id = id
         /\ \A side \in Sides : \A price \in 0..MaxPrice :
              Occurrences(side, price, id) =
                 IF side = Index[id].side /\ price = Index[id].price THEN 1 ELSE 0
    /\ \A side \in Sides :
         /\ DOMAIN Levels(side) \subseteq 0..MaxPrice
         /\ BookLen(orderbook)[side] = Cardinality({id \in DOMAIN Index : Index[id].side = side})

\* C6 witness: an order was taken out of a book that still holds two orders
C6_Witness ==
    /\ last.op \in {"remove", "pop"}
    /\ last.ret.some
    /\ Cardinality(DOMAIN Index) = 2

\* C7: no price level of either Side Book has an empty FIFO.
C7_NoEmptyLevel ==
    \A side \in Sides : \A price \in DOMAIN Levels(side) : Levels(side)[price] # <<>>

\* C7 witness: remove or pop took the last order of its level, and the level is gone
C7_Witness ==
    /\ last.op \in {"remove", "pop"}
    /\ last.ret.some
    /\ last.ret.val.price \notin DOMAIN Levels(last.ret.val.side)
    /\ Index # <<>>

\* a sequence without the entries equal to x
SeqWithout(seq, x) == SelectSeq(seq, LAMBDA y : y # x)

\* C8: Book cancel(id) of an id in the book returns that order and takes it out of
\* the Order Index and of its level, every other order staying where it is;
\* cancel(id) of an id not in the book returns none and leaves the book unchanged.
C8_CancelReturnsAndRemoves ==
    [][last'.op = "remove" =>
        LET id == last'.req.user_order_id
        IN IF id \in DOMAIN orderbook.orders_by_id
           THEN /\ last'.ret = Some(orderbook.orders_by_id[id])
                /\ last'.ret.val.order_id = id
                /\ orderbook'.orders_by_id = Without(orderbook.orders_by_id, id)
                /\ \A side \in Sides :
                     SideIds(orderbook', side) = SeqWithout(SideIds(orderbook, side), id)
           ELSE /\ last'.ret = None
                /\ orderbook' = orderbook]_vars

\* C8 witness: a cancel returned an order that was not the head of its level
C8_Witness ==
    /\ last.op = "remove"
    /\ last.ret.some
    /\ last.ret.val.price \in DOMAIN Levels(last.ret.val.side)
    /\ Index[Head(Levels(last.ret.val.side)[last.ret.val.price])].timestamp
         < last.ret.val.timestamp

\* C9: the Engine emits an acknowledgement for a Cancel only if the cancelled id
\* was in the book; a Cancel of an id that is not there emits nothing.
C9_CancelAckOnlyIfResting ==
    last.op = "Cancel" =>
        IF last.ret.some
        THEN log_sender = <<[kind |-> "Acknowledgment", label |-> "A",
                             user_id |-> last.req.user_id,
                             user_order_id |-> last.req.user_order_id]>>
        ELSE log_sender = <<>>

\* the last operation sent a top-of-book event
SentBookTop == \E j \in 1..Len(log_sender) : log_sender[j].kind = "BookTop"

\* C10: a Create emits a top-of-book event iff the incoming order or its residual
\* rested; a Create whose order the crossing loop filled completely emits the
\* acknowledgement only.
C10_BookTopOnlyIfRested ==
    CreateDone =>
        /\ SentBookTop <=> last.rested
        /\ IsClosed(Taker) =>
              Len(log_sender) = 1 /\ log_sender[1].kind = "Acknowledgment"

\* the top-of-book event Engine::process builds from the book as it is
TopOfBook == BookTop(orderbook).event.val

\* the price of the order at the head of a side
HeadPrice(side) == Peek(orderbook, side).ret.val.price

\* C11: when both sides of the book are non-empty as a Create sends its top-of-book
\* event, the event reports the bid side: tag B, the top bid's price and the
\* remaining quantity of all the bids.
C11_BookTopReportsBid ==
    (CreateDone /\ SentBookTop /\ Levels("Ask") # <<>> /\ Levels("Bid") # <<>>) =>
        /\ log_sender[Len(log_sender)] = TopOfBook
        /\ TopOfBook.side = "B"
        /\ TopOfBook.price = HeadPrice("Bid")
        /\ TopOfBook.total_qty = Volume(orderbook).bid

AcksSent == SelectSeq(log_sender, LAMBDA e : e.kind = "Acknowledgment")

\* C13: every Create with price > 0 succeeds and sends exactly one acknowledgement,
\* labelled A, with the incoming order's user_id and user_order_id, as its first
\* event.
C13_ExactlyOnePositiveAck ==
    (last.op = "Create" /\ last.req.price > 0) =>
        /\ last.result = "Ok"
        /\ AcksSent = <<[kind |-> "Acknowledgment", label |-> "A",
                         user_id |-> last.req.user_id,
                         user_order_id |-> last.req.user_order_id]>>
        /\ log_sender[1] = AcksSent[1]

\* C13 witness: a Create that was filled completely by two trades
C13_Witness ==
    /\ CreateDone
    /\ TradeCount = 2
    /\ IsClosed(Taker)
    /\ Len(AcksSent) = 1

\* C15: a Create with price 0 fails with MarketUnsupported, sends no event and
\* leaves the book as it was.
C15_MarketOrderRefused ==
    [][(last'.op = "Create" /\ last'.req.price = 0) =>
        /\ last'.result = "MarketUnsupported"
        /\ log_sender' = <<>>
        /\ orderbook' = orderbook]_vars

\* C15 witness: a Create with price 0 was refused while orders were in the book
C15_Witness ==
    /\ last.op = "Create"
    /\ last.req.price = 0
    /\ last.result = "MarketUnsupported"
    /\ Index # <<>>

\* C16: a Flush sends no event and leaves the initial empty book: no top of book,
\* len (0, 0), volume (0, 0); and a Cancel right after a Flush sends nothing.
C16_FlushEmptiesBook ==
    [][/\ last'.op = "Flush" =>
            /\ log_sender' = <<>>
            /\ orderbook' = NewBook
            /\ SpreadOption(orderbook').ask = None
            /\ SpreadOption(orderbook').bid = None
            /\ BookLen(orderbook') = [s \in Sides |-> 0]
            /\ Volume(orderbook').ask = 0
            /\ Volume(orderbook').bid = 0
       /\ (last.op = "Flush" /\ last'.op = "Cancel") => log_sender' = <<>>]_vars

\* C17: the order a cancel returns has its status changed as LimitOrder::cancel
\* changes it: Cancelled if it was Open, Closed if it was Partial.
C17_CancelChangesStatus ==
    [][(/\ last'.op = "remove"
        /\ last'.req.user_order_id \in DOMAIN orderbook.orders_by_id
        /\ orderbook.orders_by_id[last'.req.user_order_id].status \in {"Open", "Partial"})
        => last'.ret = Some(CancelOrder(orderbook.orders_by_id[last'.req.user_order_id]))]_vars

\* C18: a cancel of a fresh id right after the place of an order with that id
\* returns the order and restores len(), volume() and the set of price levels of
\* each side to what they were before the place.
C18_PlaceThenCancelRestores ==
    (last.op = "remove" /\ before.some) =>
        /\ last.ret.some
        /\ BookLen(orderbook) = BookLen(before.val)
        /\ Volume(orderbook) = Volume(before.val)
        /\ \A side \in Sides :
              DOMAIN Levels(side) = DOMAIN before.val.orders_by_side[side]

\* C18 witness: the order was placed at the back of a level that held another
\* order, and was cancelled right after
C18_Witness ==
    /\ last.op = "remove"
    /\ before.some
    /\ last.ret.some
    /\ last.ret.val.price \in DOMAIN Levels(last.ret.val.side)
    /\ Levels("Ask") # <<>>
    /\ Levels("Bid") # <<>>

\* C19: when a send on the events channel fails because the Receiver is gone,
\* Engine::process returns a ReportingError.
C19_SendFailureReported ==
    stderr # <<>> => last.result = "ReportingError"

\* the events of the handled requests, one request after the other
RECURSIVE EventsOfAll(_)
EventsOfAll(hs) ==
    IF hs = <<>> THEN <<>> ELSE Head(hs).events \o EventsOfAll(Tail(hs))

\* C14: the output stream and the events still in the channel are, in this order,
\* the events of the processed requests: each request's events together, the
\* acknowledgement before the top-of-book event, and the requests in the order the
\* reader sent them.
C14_OutputInInputOrder ==
    /\ stdout \o log_rx = EventsOfAll(handled)
    /\ Len(handled) <= Len(read)
    /\ \A j \in 1..Len(handled) :
         /\ handled[j].request = read[j]
         /\ Len(handled[j].events) <= 2
         /\ Len(handled[j].events) >= 1 => handled[j].events[1].kind = "Acknowledgment"
         /\ Len(handled[j].events) = 2 => handled[j].events[2].kind = "BookTop"

\* C14 witness: the writer wrote the events of one request while those of a later
\* request wait in the channel and a third request waits for the engine
C14_Witness ==
    /\ Len(handled) = 2
    /\ stdout = handled[1].events
    /\ Len(stdout) = 2
    /\ log_rx = handled[2].events
    /\ log_rx # <<>>
    /\ rx # <<>>

\* C20: once the reader reached the end of input, the engine has stopped and the
\* writer has ended, every request the reader sent was processed and every event
\* the engine sent was written; and the writer ends only after the other two.
C20_ShutdownDrains ==
    writer = "done" =>
        /\ engine = "stopped"
        /\ log_rx = <<>>
        /\ stdout = EventsOfAll(handled)
        /\ reader = "done" => (rx = <<>> /\ Len(handled) = Len(read))

\* C21: after a Create, every maker the crossing loop filled completely is not in
\* the book, and a maker it filled partly is still the head of its price level,
\* with status Partial and its remaining quantity reduced by the traded amount.
C21_MakersAfterCreate ==
    CreateDone =>
        \A k \in 1..TradeCount :
            LET t == last.trades[k]
                id == t.maker_before.order_id
            IN IF Remaining(t.maker_after) = 0
               THEN /\ id \notin DOMAIN Index
                    /\ \A side \in Sides : \A j \in 1..Len(SideIds(orderbook, side)) :
                          SideIds(orderbook, side)[j] # id
               ELSE /\ id \in DOMAIN Index
                    /\ Index[id] = t.maker_after
                    /\ Index[id].status = "Partial"
                    /\ Remaining(Index[id]) = Remaining(t.maker_before) - t.trade.amount
                    /\ Index[id].price = t.maker_before.price
                    /\ Index[id].price \in DOMAIN Levels(Index[id].side)
                    /\ Head(Levels(Index[id].side)[Index[id].price]) = id

\* C21 witness: a Create filled one maker completely and the next one partly
C21_Witness ==
    /\ CreateDone
    /\ TradeCount = 2
    /\ Remaining(last.trades[1].maker_after) = 0
    /\ Remaining(last.trades[2].maker_after) > 0

\* the amounts of a sequence of executed trades, summed
RECURSIVE SumAmounts(_)
SumAmounts(trades) ==
    IF trades = <<>> THEN 0 ELSE Head(trades).trade.amount + SumAmounts(Tail(trades))

\* C22: an incoming order that is not filled completely is placed at the tail of
\* the level of its own side at its original limit price, with its quantity and
\* with filled the sum of its trades; the fills do not change the price it rests at.
C22_ResidualPlacedAtTail ==
    (CreateDone /\ ~IsClosed(Taker)) =>
        /\ Taker.order_id \in DOMAIN Index
        /\ Index[Taker.order_id] = Taker
        /\ Taker.side = last.req.side
        /\ Taker.price = last.req.price
        /\ Taker.quantity = last.req.qty
        /\ Taker.filled = SumAmounts(last.trades)
        /\ Remaining(Taker) = last.req.qty - SumAmounts(last.trades)
        /\ Taker.price \in DOMAIN Levels(Taker.side)
        /\ Levels(Taker.side)[Taker.price][Len(Levels(Taker.side)[Taker.price])]
              = Taker.order_id
        /\ \A side \in Sides : \A price \in 0..MaxPrice :
              Occurrences(side, price, Taker.order_id) =
                 IF side = Taker.side /\ price = Taker.price THEN 1 ELSE 0

\* C22 witness: an order that traded at a price other than its limit rests with
\* what is left of it
C22_Witness ==
    /\ CreateDone
    /\ ~IsClosed(Taker)
    /\ TradeCount >= 1
    /\ last.trades[1].trade.price # Taker.price
    /\ Taker.order_id \in DOMAIN Index

\* the two orders a method of the pair was called with
Maker == IF last.op \in {"matches", "trade"} THEN last.ret.val ELSE orders.maker
Given == last.taker.val

\* C23: matches(maker, taker) succeeds iff neither order is closed, the sides are
\* opposite and the bid's price is >= the ask's price; otherwise it fails with
\* Closed if either order is closed, else Conflict if the sides are equal, else
\* Incompatible.
C23_MatchesContract ==
    last.op = "matches" =>
        LET closed == Maker.status \in {"Cancelled", "Closed", "Completed"}
                        \/ Given.status \in {"Cancelled", "Closed", "Completed"}
            opposite == Maker.side # Given.side
            bid == IF Maker.side = "Bid" THEN Maker.price ELSE Given.price
            ask == IF Maker.side = "Ask" THEN Maker.price ELSE Given.price
        IN /\ last.result = "Ok" <=> (~closed /\ opposite /\ bid >= ask)
           /\ last.result =
                IF closed THEN "Closed"
                ELSE IF ~opposite THEN "Conflict"
                ELSE IF bid >= ask THEN "Ok"
                ELSE "Incompatible"

\* C23 witness: matches failed with Incompatible on a partly filled maker and an
\* open taker
C23_Witness ==
    /\ last.op = "matches"
    /\ last.result = "Incompatible"
    /\ Maker.status = "Partial"
    /\ Given.status = "Open"

\* C24: fill(amount) with 0 < amount <= remaining adds amount to filled and sets
\* the status to Completed when nothing remains, else to Partial; with amount = 0
\* it fails with NoFill, with amount > remaining with Overfill, and a failed fill
\* leaves filled and status as they were.
C24_FillContract ==
    last.op = "fill" =>
        LET amount == last.req.qty
            o == Given
            left == last.ret.val
        IN IF amount = 0
           THEN last.result = "NoFill" /\ left = o
           ELSE IF amount > o.quantity - o.filled
           THEN last.result = "Overfill" /\ left = o
           ELSE /\ last.result = "Ok"
                /\ left.filled = o.filled + amount
                /\ left.status = IF left.quantity - left.filled = 0
                                 THEN "Completed" ELSE "Partial"
                /\ left = [o EXCEPT !.filled = left.filled, !.status = left.status]

\* C24 witness: a fill of less than what remained left an order Partial
C24_Witness ==
    /\ last.op = "fill"
    /\ last.result = "Ok"
    /\ last.ret.val.status = "Partial"
    /\ last.ret.val.filled = 1
    /\ orders.maker.status = "Partial"

\* the order records in sight: the resting ones, the incoming order of the last
\* operation, and the two orders of each of its trades before and after the trade
Records ==
    {Index[id] : id \in DOMAIN Index}
        \cup (IF last.taker.some THEN {last.taker.val} ELSE {})
        \cup {last.trades[k].maker_before : k \in 1..TradeCount}
        \cup {last.trades[k].maker_after : k \in 1..TradeCount}
        \cup {last.trades[k].taker_before : k \in 1..TradeCount}
        \cup {last.trades[k].taker_after : k \in 1..TradeCount}

\* the order the last operation returned, if that operation was a cancel
ReturnedByCancel ==
    IF last.op \in {"remove", "Cancel"} /\ last.ret.some THEN {last.ret.val} ELSE {}

\* filled <= quantity, and Completed iff filled = quantity
FilledWithinQuantity(o) ==
    /\ o.filled <= o.quantity
    /\ o.status = "Completed" <=> o.filled = o.quantity

\* C25: for every order record, incoming, resting or returned by cancel:
\* filled <= quantity; status = Completed iff filled = quantity; status = Open iff
\* filled = 0 and the order has not been cancelled.
C25_OrderRecordInvariant ==
    /\ \A o \in Records :
          /\ FilledWithinQuantity(o)
          /\ o.status = "Open" <=> o.filled = 0
    /\ \A o \in ReturnedByCancel :
          /\ FilledWithinQuantity(o)
          /\ o.status # "Open"

\* how many times the body of the crossing loop ran for an operation d: once for
\* each trade, and once more when the loop ended by a break, which is when the
\* order it leaves is not closed (the loop's condition is still true)
Iterations(d) == Len(d.trades) + IF IsClosed(d.taker.val) THEN 0 ELSE 1

\* C26: the crossing loop of every Create with price > 0 ends, without a panic;
\* each of its trades completes the taker or completes the head maker, which is
\* then removed; the body runs at most once more than there were resting orders
\* on the opposite side.
C26_CrossingLoopTerminates ==
    [][(last'.op = "Create" /\ last'.req.price > 0) =>
        /\ last'.result = "Ok"
        /\ \A k \in 1..Len(last'.trades) :
              \/ last'.trades[k].taker_after.status = "Completed"
              \/ /\ last'.trades[k].maker_after.status = "Completed"
                 /\ last'.trades[k].maker_after.order_id
                        \notin DOMAIN orderbook'.orders_by_id
        /\ Iterations(last') <= BookLen(orderbook)[Opposite(last'.req.side)] + 1]_vars

\* C26 witness: a Create traded with every order of the opposite side and has
\* quantity left: the body ran once per resting order, and once more to find the
\* side empty
C26_Witness ==
    /\ CreateDone
    /\ TradeCount >= 1
    /\ ~IsClosed(Taker)
    /\ Levels(Opposite(Taker.side)) = <<>>

\* the limit price of a Create does not cross the head of the opposite side of
\* book b, or that side is empty
NotCrossing(b, req) ==
    LET head == Peek(b, Opposite(req.side)).ret
    IN \/ ~head.some
       \/ req.side = "Bid" /\ req.price < head.val.price
       \/ req.side = "Ask" /\ req.price > head.val.price

\* a level of a side of book b, empty when the side has no such price
LevelAt(b, side, price) ==
    IF price \in DOMAIN b.orders_by_side[side] THEN b.orders_by_side[side][price]
    ELSE <<>>

\* C27: a Create whose price does not cross the head of the opposite side, or
\* that finds the opposite side empty, trades nothing and changes no resting
\* order: each keeps its record, its level and its place in it; the one change is
\* the incoming order, whole and Open, appended to the level of its side and price.
C27_NonCrossingCreateFrame ==
    [][(last'.op = "Create" /\ last'.req.price > 0 /\ NotCrossing(orderbook, last'.req)) =>
        LET req == last'.req
            id == req.user_order_id
        IN /\ last'.result = "Ok"
           /\ last'.trades = <<>>
           /\ DOMAIN orderbook'.orders_by_id = DOMAIN orderbook.orders_by_id \cup {id}
           /\ \A o \in DOMAIN orderbook.orders_by_id \ {id} :
                 orderbook'.orders_by_id[o] = orderbook.orders_by_id[o]
           /\ orderbook'.orders_by_id[id] =
                 [user_id |-> req.user_id, order_id |-> id, price |-> req.price,
                  quantity |-> req.qty, side |-> req.side, timestamp |-> req.unix_nano,
                  filled |-> 0, status |-> "Open"]
           /\ orderbook'.orders_by_side[Opposite(req.side)]
                 = orderbook.orders_by_side[Opposite(req.side)]
           /\ DOMAIN orderbook'.orders_by_side[req.side]
                 = DOMAIN orderbook.orders_by_side[req.side] \cup {req.price}
           /\ \A price \in DOMAIN orderbook'.orders_by_side[req.side] :
                 LevelAt(orderbook', req.side, price) =
                    IF price = req.price
                    THEN Append(LevelAt(orderbook, req.side, price), id)
                    ELSE LevelAt(orderbook, req.side, price)]_vars

\* C27 witness: a Create that does not cross the head of the opposite side was
\* appended behind an order of its own level
C27_Witness ==
    /\ CreateDone
    /\ TradeCount = 0
    /\ Taker.status = "Open"
    /\ Levels(Opposite(Taker.side)) # <<>>
    /\ ~IsClosed(Peek(orderbook, Opposite(Taker.side)).ret.val)
    /\ Matches(Peek(orderbook, Opposite(Taker.side)).ret.val, Taker) = "Incompatible"
    /\ Len(LevelAt(orderbook, Taker.side, Taker.price)) = 2

\* C28: for every sequence of Create (price > 0, qty > 0), Cancel and Flush, a
\* Create that uses the id of a resting order again included, Engine::process
\* never panics: none of the Book's internal checks fails.
C28_ProcessNeverPanics ==
    ~panicked /\ last.result # "Panic"

\* C29: every Create with price > 0, one with qty = 0 included, goes through the
\* crossing loop without a panic: each fill is called with an amount > 0 that is
\* at most what remains of the maker and of the taker, so neither NoFill nor
\* Overfill occurs.
C29_FillsWithinRemaining ==
    (last.op = "Create" /\ last.req.price > 0) =>
        /\ last.result = "Ok"
        /\ \A k \in 1..TradeCount :
              /\ last.trades[k].trade.amount > 0
              /\ last.trades[k].trade.amount <= Remaining(last.trades[k].maker_before)
              /\ last.trades[k].trade.amount <= Remaining(last.trades[k].taker_before)

\* C30: no incoming order trades at a price worse than its limit: each trade of
\* an incoming Bid is at a price <= its limit, each trade of an incoming Ask at a
\* price >= its limit, the first trade and the later ones alike.
C30_TakerNeverWorseThanLimit ==
    last.op = "Create" =>
        \A k \in 1..TradeCount :
            /\ last.req.side = "Bid" => last.trades[k].trade.price <= last.req.price
            /\ last.req.side = "Ask" => last.trades[k].trade.price >= last.req.price

\* C30 witness: an incoming order traded twice, at two prices, one of them better
\* than its limit
C30_Witness ==
    /\ CreateDone
    /\ TradeCount = 2
    /\ last.trades[1].trade.price # last.trades[2].trade.price
    /\ last.trades[1].trade.price # last.req.price

\* the filled quantities of the orders of one side among all orders ever made
RECURSIVE FilledOf(_, _, _)
FilledOf(e, ids, side) ==
    IF ids = {} THEN 0
    ELSE (IF e[MinOf(ids)].side = side THEN e[MinOf(ids)].filled ELSE 0)
            + FilledOf(e, ids \ {MinOf(ids)}, side)

\* C31: traded quantity is conserved: the filled quantities of all Bid orders ever
\* created add up to the same as those of all Ask orders ever created, whether the
\* orders rest in the book, were completed, cancelled or flushed.
C31_TradedQuantityConserved ==
    FilledOf(ever, DOMAIN ever, "Bid") = FilledOf(ever, DOMAIN ever, "Ask")

\* C31 witness: three orders were made, two units were traded between them, and
\* the book was flushed
C31_Witness ==
    /\ last.op = "Flush"
    /\ FilledOf(ever, DOMAIN ever, "Bid") >= 2
    /\ Cardinality(DOMAIN ever) = 3

\* the engine has handled a Create that it rejected with MarketUnsupported
RejectHandled ==
    \E j \in 1..Len(handled) :
        handled[j].request.kind = "Create" /\ handled[j].request.price = 0

\* C32: a Create rejected with MarketUnsupported affects that operation only: the
\* engine thread goes on, so that when it has stopped every request the reader
\* sent was handled, and the writer ends with the events of all of them written;
\* in both drivers.
C32_RejectAffectsOnlyItself ==
    RejectHandled =>
        /\ engine = "stopped" => Len(handled) = Len(read)
        /\ writer = "done" => stdout = EventsOfAll(handled)

\* an order and a book with the timestamps blanked
StripOrder(o) == [o EXCEPT !.timestamp = 0]
StripBook(b) ==
    [b EXCEPT !.orders_by_id = [id \in DOMAIN @ |-> StripOrder(@[id])]]

\* C33: what the Engine does depends on the order in which the operations arrive
\* and not on their timestamps: each operation sends the events, and leaves the
\* book (timestamps aside), that it sends and leaves when every timestamp of the
\* book and of the request is replaced by 0, whether the timestamps grow, repeat
\* or fall. Two runs of the same operations therefore stay equal, timestamps
\* aside, step by step, and the order inside a level is the order of arrival.
C33_TimestampsDoNotMatter ==
    [][/\ (last'.op = "Create" /\ last'.req.price > 0) =>
            LET m == Matching(StripBook(orderbook),
                              LimitOrder(last'.req.user_id, last'.req.price,
                                         last'.req.qty, last'.req.side,
                                         last'.req.user_order_id, 0))
            IN /\ ~m.panic /\ last'.result = "Ok"
               /\ StripBook(orderbook') = m.book
               /\ log_sender' = CreateEvents(m).events
               /\ Len(last'.trades) = Len(m.trades)
               /\ \A k \in 1..Len(m.trades) : last'.trades[k].trade = m.trades[k].trade
       /\ (last'.op = "Create" /\ last'.req.price = 0) =>
            (orderbook' = orderbook /\ log_sender' = <<>>)
       /\ last'.op = "Cancel" =>
            /\ StripBook(orderbook')
                 = Remove(StripBook(orderbook), last'.req.user_order_id).book
            /\ log_sender' = CancelEvents(last'.req.user_id, last'.req.user_order_id,
                                          last'.ret)
       /\ last'.op = "Flush" => (orderbook' = NewBook /\ log_sender' = <<>>)]_vars

\* C33 witness: an order stamped earlier than the order ahead of it in its level
\* traded after it
C33_Witness ==
    /\ CreateDone
    /\ TradeCount = 2
    /\ last.trades[1].maker_before.price = last.trades[2].maker_before.price
    /\ last.trades[1].maker_before.timestamp > last.trades[2].maker_before.timestamp

\* C34: what an Engine Cancel does to the book depends on user_order_id alone:
\* the order with that id leaves the book whoever created it, so that Cancels of
\* one id by different users leave the same book; and the acknowledgement carries
\* the user_id of the Cancel request.
C34_CancelIgnoresUser ==
    [][last'.op = "Cancel" =>
        LET id == last'.req.user_order_id
        IN /\ orderbook'.orders_by_id =
                 [o \in DOMAIN orderbook.orders_by_id \ {id} |-> orderbook.orders_by_id[o]]
           /\ \A side \in Sides :
                 SideIds(orderbook', side) = SeqWithout(SideIds(orderbook, side), id)
           /\ last'.ret = IF id \in DOMAIN orderbook.orders_by_id
                          THEN Some(orderbook.orders_by_id[id]) ELSE None
           /\ Len(log_sender') = 1
           /\ log_sender'[1].user_id = last'.req.user_id
           /\ log_sender'[1].user_order_id = id]_vars

\* C34 witness: a Cancel took out of the book an order that another user created
C34_Witness ==
    /\ last.op = "Cancel"
    /\ last.ret.some
    /\ last.ret.val.user_id # last.req.user_id
    /\ log_sender[1].user_id = last.req.user_id
    /\ Index # <<>>

\* the mathematical sum of the remaining quantities of the resting orders of a side
ExactVolume(side) == SumRemaining(Index, SideIds(orderbook, side))

\* C35: the total_qty of a top-of-book event, and what volume() returns, is the
\* mathematical sum of the remaining quantities of the resting orders of the
\* side, for all quantities of the unsigned range: the sum never wraps and the
\* summation never aborts.
C35_VolumeIsExactSum ==
    (last.op = "Create" /\ last.req.price > 0) =>
        /\ last.result = "Ok"
        /\ Volume(orderbook).ask = ExactVolume("Ask")
        /\ Volume(orderbook).bid = ExactVolume("Bid")
        /\ SentBookTop
        /\ log_sender[Len(log_sender)].total_qty =
              IF log_sender[Len(log_sender)].side = "S" THEN ExactVolume("Ask")
              ELSE ExactVolume("Bid")

\* the order of a trade that is on the given side
SideOf(t, side) == IF t.maker_before.side = side THEN t.maker_before ELSE t.taker_before

\* C40: in the Trade record built by TradeImpl::try_new, buy_user_id and
\* buy_order_id are those of the Bid order of the trade and sell_user_id and
\* sell_order_id those of its Ask order, whichever of the two is the taker.
C40_BuyerIsTheBid ==
    \A k \in 1..Len(last.trades) :
        /\ last.trades[k].trade.buy_user_id = SideOf(last.trades[k], "Bid").user_id
        /\ last.trades[k].trade.buy_order_id = SideOf(last.trades[k], "Bid").order_id
        /\ last.trades[k].trade.sell_user_id = SideOf(last.trades[k], "Ask").user_id
        /\ last.trades[k].trade.sell_order_id = SideOf(last.trades[k], "Ask").order_id

\* the quantity of the incoming order that the records of a match account for:
\* the records come in pairs, the first of each pair being the incoming order's
RECURSIVE MatchedOf(_)
MatchedOf(matches) ==
    IF Len(matches) < 2 THEN 0
    ELSE matches[1].quantity + MatchedOf(SubSeq(matches, 3, Len(matches)))

\* how many keys of the order's side carry the id of the order
KeysOf(b, order) ==
    Cardinality({i \in 1..Len(b[QueueOf(order.side)]) :
                    b[QueueOf(order.side)][i].order_id = order.order_id})

\* the order is in the book as it is given: in the map, with one key on its side
PlacedAs(b, order) ==
    /\ order.order_id \in DOMAIN b.orders
    /\ b.orders[order.order_id] = order
    /\ KeysOf(b, order) = 1
    /\ OrderIndexOf(order) \in
           {b[QueueOf(order.side)][i] : i \in 1..Len(b[QueueOf(order.side)])}

NotPlaced(b, order) ==
    /\ order.order_id \notin DOMAIN b.orders
    /\ KeysOf(b, order) = 0

\* C36: in Matcher::match_order a trade is recorded between the incoming order
\* and a resting order only when their prices cross (incoming Bid price >=
\* resting Ask price, incoming Ask price <= resting Bid price), for the first
\* resting order and for every further one the same incoming order consumes.
\* Each record of a match carries the price of the resting order.
C36_TradesOnlyWhenPricesCross ==
    last.op = "match_order" =>
        \A k \in 1..Len(last.trades) : IsWithinPriceLimit(Taker, last.trades[k])

\* C37: after Matcher::match_order the state is Full iff the incoming order was
\* matched completely (qty_left = 0, the order not placed); Partial iff it was
\* matched partly, and then one remnant is placed with quantity = qty_left =
\* original quantity minus the quantities matched; NoMatch iff no trade was
\* recorded, and then the incoming order is placed unchanged.
C37_MatchStateContract ==
    last.op = "match_order" =>
        LET m == last.ret.val
            matched == MatchedOf(m.matches)
        IN /\ (m.state = "Full") <=> (matched = Taker.quantity)
           /\ (m.state = "Partial") <=> (m.matches # <<>> /\ matched < Taker.quantity)
           /\ (m.state = "NoMatch") <=> (m.matches = <<>>)
           /\ m.state = "Full" => m.qty_left = 0 /\ NotPlaced(orderbook, Taker)
           /\ m.state = "Partial" =>
                  /\ m.qty_left = Taker.quantity - matched
                  /\ PlacedAs(orderbook, [Taker EXCEPT !.quantity = m.qty_left])
           /\ m.state = "NoMatch" => PlacedAs(orderbook, Taker)

\* a match that took a resting order whole and left a remnant, which was placed
C37_Witness ==
    /\ last.op = "match_order"
    /\ last.ret.val.state = "Partial"
    /\ Len(last.trades) = 2
    /\ last.ret.val.qty_left = Taker.quantity - last.trades[1].quantity
    /\ last.ret.val.qty_left > 0
    /\ orderbook.orders[Taker.order_id].quantity = last.ret.val.qty_left

\* C38: OrderBookAlt::cancel of an order id that is not in the book fails
\* (returns Err) and leaves the book unchanged.
C38_CancelOfMissingIdFails ==
    (last.op = "cancel" /\ last.req.user_order_id \notin DOMAIN before.val.orders) =>
        /\ last.result = "Err"
        /\ orderbook = before.val

\* C39: OrderBookAlt::place of an order whose id is already in the book fails
\* (returns Err) and leaves the order map and both priority queues unchanged.
C39_PlaceOfKnownIdFails ==
    (last.op = "place" /\ last.req.user_order_id \in DOMAIN before.val.orders) =>
        /\ last.result = "Err"
        /\ orderbook = before.val

====
